---------------------------- MODULE Spec2Model ----------------------------
(***************************************************************************)
(* Rugby stats collector (Streamlit + SQLite).                             *)
(*                                                                         *)
(* State: the SQLite database behind the one cached connection (its        *)
(* working content `db` and its committed content `disk`), a backup copy   *)
(* of the database file (`cloud`), every browser session's session_state   *)
(* (`session`), the position of a session inside a `with conn:` block      *)
(* (`pc`, used by the interleaving specification only), the last message   *)
(* the app displayed (`msg`), a logical clock (`clock`, the source of      *)
(* datetime('now')) and the number of "logged" toasts shown (`toasts`).    *)
(*                                                                         *)
(* One action per button handler.  A handler is a whole Streamlit script   *)
(* run: init_db first, then the page code up to the pressed button.        *)
(*                                                                         *)
(* Text is a sequence of tokens; the token " " is white space and every    *)
(* other token is a run of non-blank characters, so that str.strip() is    *)
(* modelled by what it does.  Columns that no handler reads back           *)
(* (players.position, matches.opponent's display) are kept only where a    *)
(* query uses them.  Weights are whole numbers of points; a Per-80 rate    *)
(* is the exact fraction num/den (the UI rounds it to 2 decimals only for  *)
(* display).                                                               *)
(***************************************************************************)
EXTENDS Integers, Sequences, FiniteSets, TLC

VARIABLES db, disk, cloud, session, pc, msg, clock, toasts

vars == <<db, disk, cloud, session, pc, msg, clock, toasts>>

---------------------------------------------------------------------------
(* Bounds of the model *)

\* Script runs explored from an initial state in Spec.
MaxClock == 3
\* Rows of players / events the report and ledger specifications grow to.
MaxPlayers == 2
MaxEvents == 2
\* Rows of events in the interleaving specification.
MaxConcEvents == 2

AllSessions == {1, 2}

---------------------------------------------------------------------------
(* Text *)

Blank == " "

RECURSIVE LStrip(_)
LStrip(t) == IF t # <<>> /\ Head(t) = Blank THEN LStrip(Tail(t)) ELSE t

RECURSIVE RStrip(_)
RStrip(t) ==
  IF t # <<>> /\ t[Len(t)] = Blank THEN RStrip(SubSeq(t, 1, Len(t) - 1)) ELSE t

\* str.strip()
Strip(t) == RStrip(LStrip(t))

---------------------------------------------------------------------------
(* Tables: a table is a function from rowid to row *)

EmptyTable == <<>>

SetMax(S) == CHOOSE x \in S : \A y \in S : y <= x

\* INTEGER PRIMARY KEY without AUTOINCREMENT: one more than the largest
\* rowid in the table, so the id of a deleted last row is given out again.
NextRowId(t) == IF DOMAIN t = {} THEN 1 ELSE SetMax(DOMAIN t) + 1

InsertRow(t, row) ==
  LET new == NextRowId(t)
  IN  [i \in DOMAIN t \cup {new} |-> IF i = new THEN row ELSE t[i]]

DeleteRow(t, id) == [i \in DOMAIN t \ {id} |-> t[i]]

RECURSIVE SumOver(_, _)
\* sum of f[x] over the finite set S
SumOver(f, S) ==
  IF S = {} THEN 0
  ELSE LET x == CHOOSE y \in S : TRUE IN f[x] + SumOver(f, S \ {x})

---------------------------------------------------------------------------
(* Users and passwords *)

\* bcrypt.hashpw / bcrypt.checkpw: a hash matches exactly the password it
\* was made from.
HashPw(pw) == <<"bcrypt", pw>>
CheckPw(pw, h) == h = HashPw(pw)

AdminUser == "admin"
AdminPass == "admin123"

\* seed_admin: one admin, only when the users table is empty
SeedAdmin(d) ==
  IF DOMAIN d.users # {} THEN d
  ELSE [d EXCEPT !.users =
          [u \in {AdminUser} |->
             [pass_hash |-> HashPw(AdminPass), role |-> "admin", active |-> 1]]]

---------------------------------------------------------------------------
(* Schema and seed data *)

\* Two of the sixteen DEFAULT_METRICS rows (the others differ only in their
\* texts and weights): (key, label, group, weight).
DEFAULT_METRICS ==
  << [name |-> <<"tackles_made">>, label |-> <<"Tackles Made">>,
      group_name |-> "Defense", weight |-> 1],
     [name |-> <<"tries">>, label |-> <<"Tries">>,
      group_name |-> "Scoring", weight |-> 5] >>

\* A database file holding the users table only (get_conn before init_db).
NoTables ==
  [users |-> EmptyTable, players |-> EmptyTable, metrics |-> EmptyTable,
   matches |-> EmptyTable, events |-> EmptyTable, hotkeys |-> {},
   videos |-> EmptyTable, moments |-> EmptyTable]

\* Mutant of InitDb: the closing UPDATE without its COALESCE, which sets
\* every weight to 0.0 on every run.
InitDbResetWeights(d) ==
  LET seeded ==
        IF DOMAIN d.metrics # {} THEN d.metrics
        ELSE [i \in 1..Len(DEFAULT_METRICS) |->
                [name |-> DEFAULT_METRICS[i].name,
                 label |-> DEFAULT_METRICS[i].label,
                 group_name |-> DEFAULT_METRICS[i].group_name,
                 type |-> "count", per80 |-> 1,
                 weight |-> DEFAULT_METRICS[i].weight, active |-> 1]]
  IN  [d EXCEPT !.metrics = [m \in DOMAIN seeded |->
                               [seeded[m] EXCEPT !.weight = 0]]]

\* init_db: seed the default metrics into an empty metrics table.  Its
\* closing UPDATE (weight = COALESCE(weight, 0.0)) changes no row: every
\* INSERT of the program stores a number as weight.
InitDb(d) ==
  LET seeded ==
        IF DOMAIN d.metrics # {} THEN d.metrics
        ELSE [i \in 1..Len(DEFAULT_METRICS) |->
                [name |-> DEFAULT_METRICS[i].name,
                 label |-> DEFAULT_METRICS[i].label,
                 group_name |-> DEFAULT_METRICS[i].group_name,
                 type |-> "count", per80 |-> 1,
                 weight |-> DEFAULT_METRICS[i].weight, active |-> 1]]
  IN  [d EXCEPT !.metrics = seeded]

\* get_conn: open the file, create the users table, seed the admin.
GetConn(file) == SeedAdmin(file)

---------------------------------------------------------------------------
(* Sessions *)

\* the value of the video component before any bookmark: default={}
NoPayload == [type |-> "", t |-> 0]

\* st.session_state of a browser session, with the value the video component
\* last sent and the "vid_note_default" entry
NoSession == [username |-> "", role |-> "none", match_id |-> 0,
              payload |-> NoPayload, vid_note_default |-> ""]

LoggedIn(s) == session[s].role # "none"

\* A handler that runs alone: no `with conn:` block is left open, and the
\* backup copy is not touched.
Sequential == pc' = pc /\ cloud' = cloud

\* A handler's write, committed by its `with conn:` block.
Commit(d) == db' = d /\ disk' = d

Say(m) == msg' = m

---------------------------------------------------------------------------
(* streamlit_app.py: login and logout *)

\* login_screen, "Login" pressed
Login(s, username, password) ==
  /\ ~LoggedIn(s)
  /\ IF username \notin DOMAIN db.users
       THEN Say("Unknown user") /\ UNCHANGED <<session, db, disk>>
     ELSE IF db.users[username].active # 1
       THEN Say("User disabled") /\ UNCHANGED <<session, db, disk>>
     ELSE IF CheckPw(password, db.users[username].pass_hash)
       \* st.rerun(): the next run is the app's first render, with init_db
       THEN /\ session' = [session EXCEPT ![s].username = username,
                                          ![s].role = db.users[username].role]
            /\ Say("")
            /\ Commit(InitDb(db))
     ELSE Say("Incorrect password") /\ UNCHANGED <<session, db, disk>>
  /\ UNCHANGED toasts
  /\ Sequential

\* logout_button: st.session_state.clear()
Logout(s) ==
  /\ LoggedIn(s)
  /\ session' = [session EXCEPT ![s] = NoSession]
  /\ Say("")
  /\ UNCHANGED <<db, disk, toasts>>
  /\ Sequential

---------------------------------------------------------------------------
(* user_admin_page.py *)

UserRoles == {"admin", "editor", "viewer"}

\* "Create User".  The page is reached from an admin's sidebar
\* (components_user_admin.user_admin returns at once for any other role).
CreateUser(s, new_user, new_pass, role) ==
  /\ session[s].role = "admin"
  /\ role \in UserRoles
  /\ IF new_user = "" \/ new_pass = ""
       THEN Say("Username & password required") /\ UNCHANGED <<db, disk>>
     ELSE IF new_user \in DOMAIN db.users
       \* PRIMARY KEY: IntegrityError, the with block rolls back
       THEN Say("Username already exists") /\ UNCHANGED <<db, disk>>
     ELSE /\ Commit([db EXCEPT !.users =
                       [u \in DOMAIN db.users \cup {new_user} |->
                          IF u = new_user
                            THEN [pass_hash |-> HashPw(new_pass),
                                  role |-> role, active |-> 1]
                            ELSE db.users[u]]])
          /\ Say("User created")
  /\ UNCHANGED <<session, toasts>>
  /\ Sequential

---------------------------------------------------------------------------
(* rugby_stats_app_v5_main.py: pages *)

\* A run with no button pressed: main() calls init_db and renders the tabs.
Render(s) ==
  /\ LoggedIn(s)
  /\ Commit(InitDb(db))
  /\ Say("")
  /\ UNCHANGED <<session, toasts>>
  /\ Sequential

\* page_players is writable for these roles only
CanEditPlayers(role) == role \in {"admin", "editor"}

\* "Add Player"
AddPlayer(s, name) ==
  /\ CanEditPlayers(session[s].role)
  /\ LET d == InitDb(db)
     IN  IF Strip(name) = <<>>
           THEN Commit(d) /\ Say("Please enter a player name.")
           ELSE /\ Commit([d EXCEPT !.players =
                             InsertRow(d.players,
                                       [name |-> Strip(name), active |-> 1])])
                /\ Say("Player added.")
  /\ UNCHANGED <<session, toasts>>
  /\ Sequential

\* "Save Changes" on the player chosen in the select box
SavePlayer(s, pid, new_name, new_active) ==
  /\ CanEditPlayers(session[s].role)
  /\ LET d == InitDb(db)
     IN  /\ pid \in DOMAIN d.players
         /\ Commit([d EXCEPT !.players[pid] =
                      [name |-> Strip(new_name),
                       active |-> IF new_active THEN 1 ELSE 0]])
  /\ Say("Saved.")
  /\ UNCHANGED <<session, toasts>>
  /\ Sequential

\* "Delete Permanently": DELETE FROM players WHERE id=?
DeletePlayer(s, del_id) ==
  /\ CanEditPlayers(session[s].role)
  /\ LET d == InitDb(db)
     IN  /\ del_id \in DOMAIN d.players
         /\ Commit([d EXCEPT !.players = DeleteRow(d.players, del_id)])
  /\ Say("Player deleted.")
  /\ UNCHANGED <<session, toasts>>
  /\ Sequential

Groups == {"Attack", "Defense", "Kicking", "Discipline", "Scoring", "Other"}

\* Mutant of UniqueViolation: a metrics table declared without UNIQUE.
UniqueViolationNever(ms, key) == FALSE

\* metrics.name is UNIQUE (BINARY collation: an exact, case-sensitive match)
UniqueViolation(ms, key) == \E m \in DOMAIN ms : ms[m].name = key

\* INSERT INTO metrics(name,label,group_name,type,per80,weight,active)
\* VALUES(key.strip(), label.strip(), grp, "count", int(per80), weight, 1)
InsertMetric(ms, key, label, grp, per80, weight) ==
  InsertRow(ms, [name |-> Strip(key), label |-> Strip(label),
                 group_name |-> grp, type |-> "count",
                 per80 |-> IF per80 THEN 1 ELSE 0,
                 weight |-> weight, active |-> 1])

\* "Create Metric"
CreateMetric(s, key, label, grp, per80, weight) ==
  /\ session[s].role = "admin"
  /\ grp \in Groups
  /\ LET d == InitDb(db)
     IN  IF Strip(key) = <<>> \/ Strip(label) = <<>>
           THEN Commit(d) /\ Say("Key and Label are required.")
         ELSE IF UniqueViolation(d.metrics, Strip(key))
           \* sqlite3.IntegrityError: the with block rolls the INSERT back
           THEN Commit(d) /\ Say("Key must be unique.")
         ELSE /\ Commit([d EXCEPT !.metrics =
                           InsertMetric(d.metrics, key, label, grp, per80,
                                        weight)])
              /\ Say("Metric added.")
  /\ UNCHANGED <<session, toasts>>
  /\ Sequential

\* Mutant of UpdateMetricRow: an UPDATE that also rewrites the key from the
\* edited label.
UpdateMetricRowAndKey(row, new_label, new_grp, new_per80, new_active, new_weight) ==
  [row EXCEPT !.name = Strip(new_label),
              !.label = Strip(new_label),
              !.group_name = new_grp,
              !.per80 = IF new_per80 THEN 1 ELSE 0,
              !.active = IF new_active THEN 1 ELSE 0,
              !.weight = new_weight]

\* UPDATE metrics SET label=?, group_name=?, per80=?, active=?, weight=?
UpdateMetricRow(row, new_label, new_grp, new_per80, new_active, new_weight) ==
  [row EXCEPT !.label = Strip(new_label),
              !.group_name = new_grp,
              !.per80 = IF new_per80 THEN 1 ELSE 0,
              !.active = IF new_active THEN 1 ELSE 0,
              !.weight = new_weight]

\* "Save Metric Changes" on the metric chosen in the select box
SaveMetric(s, mid, new_label, new_grp, new_per80, new_active, new_weight) ==
  /\ session[s].role = "admin"
  /\ new_grp \in Groups
  /\ LET d == InitDb(db)
     IN  /\ mid \in DOMAIN d.metrics
         /\ Commit([d EXCEPT !.metrics[mid] =
                      UpdateMetricRow(d.metrics[mid], new_label, new_grp,
                                      new_per80, new_active, new_weight)])
  /\ Say("Saved.")
  /\ UNCHANGED <<session, toasts>>
  /\ Sequential

ActiveMetrics(d) == {m \in DOMAIN d.metrics : d.metrics[m].active = 1}

\* Some of the 36 entries of ALL_KEYS
ALL_KEYS == {"KeyW", "KeyS", "KeyR", "Digit1"}

\* The hotkeys table is the set of its rows [key, metric_id].

\* Mutant of BindHotkey: the table without its PRIMARY KEY, where OR REPLACE
\* finds no conflict and the row is added.
BindHotkeyNoConflict(hk, key, mid) ==
  hk \cup {[key |-> key, metric_id |-> mid]}

\* INSERT OR REPLACE INTO hotkeys(key, metric_id): key is the PRIMARY KEY,
\* the rows in conflict are deleted and the new row is inserted
BindHotkey(hk, key, mid) ==
  {r \in hk : r.key # key} \cup {[key |-> key, metric_id |-> mid]}

\* "Save Mapping"
SaveMapping(s, key_choice, metric_choice) ==
  /\ session[s].role = "admin"
  /\ key_choice \in ALL_KEYS
  /\ LET d == InitDb(db)
     IN  /\ metric_choice \in ActiveMetrics(d)
         /\ Commit([d EXCEPT !.hotkeys =
                      BindHotkey(d.hotkeys, key_choice, metric_choice)])
  /\ Say("Saved.")
  /\ UNCHANGED <<session, toasts>>
  /\ Sequential

\* Three of the thirteen entries of the WASD preset, in the order of the
\* dict: <<key, label>>
WasdPreset ==
  << <<"KeyW", <<"Tackles Made">> >>,
     <<"KeyS", <<"Tackles Missed">> >>,
     <<"KeyR", <<"Tries">> >> >>

\* _metric_id_by_label: SELECT id FROM metrics WHERE label=? ... fetchone();
\* 0 stands for None.  The scan is in rowid order.
MetricIdByLabel(d, label) ==
  LET hits == {m \in DOMAIN d.metrics : d.metrics[m].label = label}
  IN  IF hits = {} THEN 0 ELSE CHOOSE m \in hits : \A n \in hits : m <= n

\* Mutant of ApplyPreset: the loop stops at the first entry whose label
\* resolves to no metric.
RECURSIVE ApplyPresetUntilMiss(_, _, _)
ApplyPresetUntilMiss(d, hk, i) ==
  IF i > Len(WasdPreset) THEN hk
  ELSE LET mid == MetricIdByLabel(d, WasdPreset[i][2])
       IN  IF mid # 0
             THEN ApplyPresetUntilMiss(d, BindHotkey(hk, WasdPreset[i][1], mid),
                                       i + 1)
             ELSE hk

\* for k, label in preset.items(): mid = _metric_id_by_label(conn, label);
\* if mid: INSERT OR REPLACE ...  - entries i.. of the preset applied to hk
RECURSIVE ApplyPreset(_, _, _)
ApplyPreset(d, hk, i) ==
  IF i > Len(WasdPreset) THEN hk
  ELSE LET mid == MetricIdByLabel(d, WasdPreset[i][2])
       IN  ApplyPreset(d,
                       IF mid # 0 THEN BindHotkey(hk, WasdPreset[i][1], mid)
                       ELSE hk,
                       i + 1)

\* "Load WASD Preset": an entry whose label resolves to no metric is skipped
LoadWasd(s) ==
  /\ session[s].role = "admin"
  /\ LET d == InitDb(db)
     IN  /\ ActiveMetrics(d) # {}
         /\ Commit([d EXCEPT !.hotkeys = ApplyPreset(d, d.hotkeys, 1)])
  /\ Say("WASD preset loaded.")
  /\ UNCHANGED <<session, toasts>>
  /\ Sequential

\* "Clear All Hotkeys"
ClearHotkeys(s) ==
  /\ session[s].role = "admin"
  /\ LET d == InitDb(db)
     IN  /\ ActiveMetrics(d) # {}
         /\ Commit([d EXCEPT !.hotkeys = {}])
  /\ Say("Cleared all hotkeys.")
  /\ UNCHANGED <<session, toasts>>
  /\ Sequential

\* SELECT id FROM matches WHERE opponent=? AND date=? ... fetchone()
FindMatch(d, opponent, date) ==
  LET hits == {i \in DOMAIN d.matches :
                 d.matches[i].opponent = opponent /\ d.matches[i].date = date}
  IN  IF hits = {} THEN 0 ELSE CHOOSE i \in hits : \A j \in hits : i <= j

\* "Create/Use Match": page_logger asks for no role
CreateUseMatch(s, opponent, date) ==
  /\ LoggedIn(s)
  /\ LET d == InitDb(db)
         found == FindMatch(d, Strip(opponent), date)
     IN  IF Strip(opponent) = <<>>
           THEN Commit(d) /\ Say("Enter opponent.") /\ UNCHANGED session
         ELSE IF found # 0
           THEN /\ Commit(d)
                /\ session' = [session EXCEPT ![s].match_id = found]
                /\ Say("Match loaded")
         ELSE /\ Commit([d EXCEPT !.matches =
                           InsertRow(d.matches,
                                     [opponent |-> Strip(opponent), date |-> date])])
              /\ session' = [session EXCEPT ![s].match_id = NextRowId(d.matches)]
              /\ Say("Match loaded")
  /\ UNCHANGED toasts
  /\ Sequential

\* Mutant of InsertEvent: INSERT OR REPLACE under the id of the last row.
InsertEventOverLast(es, mid, player, metric, now) ==
  LET row == [match_id |-> mid, player_id |-> player, metric_id |-> metric,
              value |-> 1, ts |-> now]
  IN  IF DOMAIN es = {} THEN InsertRow(es, row)
      ELSE [es EXCEPT ![SetMax(DOMAIN es)] = row]

\* INSERT INTO events(match_id,player_id,metric_id,value) VALUES(?,?,?,1);
\* ts defaults to datetime('now')
InsertEvent(es, mid, player, metric, now) ==
  InsertRow(es, [match_id |-> mid, player_id |-> player, metric_id |-> metric,
                 value |-> 1, ts |-> now])

\* A metric button of the Live Logger: the match is the one remembered in
\* session_state, the player is one of the rows of _players_df (active or
\* not), the metric is one of the active metrics.
LogEvent(s, current_player, metric) ==
  /\ LoggedIn(s)
  /\ session[s].match_id # 0
  /\ LET d == InitDb(db)
     IN  /\ current_player \in DOMAIN d.players
         /\ metric \in ActiveMetrics(d)
         /\ Commit([d EXCEPT !.events =
                      InsertEvent(d.events, session[s].match_id,
                                  current_player, metric, clock)])
  /\ Say("logged")
  /\ toasts' = toasts + 1
  /\ UNCHANGED session
  /\ Sequential

---------------------------------------------------------------------------
(* page_reports: what the page computes from a database d *)

PlayerName(d, p) == d.players[p].name
MetricLabel(d, m) == d.metrics[m].label

\* FROM events e JOIN players p ON p.id=e.player_id
PlayerJoined(d) ==
  {e \in DOMAIN d.events : d.events[e].player_id \in DOMAIN d.players}

\* ... JOIN metrics m ON m.id=e.metric_id
Joined(d) ==
  {e \in PlayerJoined(d) : d.events[e].metric_id \in DOMAIN d.metrics}

EventsOf(d, p, m) ==
  {e \in Joined(d) : d.events[e].player_id = p /\ d.events[e].metric_id = m}

EventValue(d) == [e \in DOMAIN d.events |-> d.events[e].value]

\* GROUP BY p.id, m.id: one row (player name, metric label, total) a group
TotalGroups(d) ==
  {<<d.events[e].player_id, d.events[e].metric_id>> : e \in Joined(d)}

GroupTotal(d, g) == SumOver(EventValue(d), EventsOf(d, g[1], g[2]))

\* df.pivot(index="player", columns="metric", values="total") raises
\* ValueError when two rows have the same (player, metric) texts.
PivotRaises(d) ==
  \E g, h \in TotalGroups(d) :
     /\ g # h
     /\ PlayerName(d, g[1]) = PlayerName(d, h[1])
     /\ MetricLabel(d, g[2]) = MetricLabel(d, h[2])

TotalsIndex(d) == {PlayerName(d, g[1]) : g \in TotalGroups(d)}
TotalsColumns(d) == {MetricLabel(d, g[2]) : g \in TotalGroups(d)}

\* a cell of the pivot, .fillna(0)
TotalsCell(d, n, c) ==
  LET hit == {g \in TotalGroups(d) :
                PlayerName(d, g[1]) = n /\ MetricLabel(d, g[2]) = c}
  IN  IF hit = {} THEN 0 ELSE GroupTotal(d, CHOOSE g \in hit : TRUE)

ShowsTotals(d) == TotalGroups(d) # {} /\ ~PivotRaises(d)

\* SELECT label FROM metrics WHERE per80=1 AND active=1
Per80List(d) ==
  {MetricLabel(d, m) : m \in {k \in DOMAIN d.metrics :
                                d.metrics[k].per80 = 1 /\ d.metrics[k].active = 1}}

MinutesKey == <<"minutes">>

\* the events of the first minutes query: WHERE m.name='minutes'
MinutesEvents(d, p) ==
  {e \in Joined(d) : /\ d.events[e].player_id = p
                     /\ d.metrics[d.events[e].metric_id].name = MinutesKey}

\* minutes_df: one row a player that has 'minutes' events; when it is empty,
\* approx: one row a player that has any event, distinct matches * 80.
MinutesRows(d) ==
  LET logged == {p \in DOMAIN d.players : MinutesEvents(d, p) # {}}
      any == {d.events[e].player_id : e \in PlayerJoined(d)}
  IN  IF logged # {}
        THEN [p \in logged |-> SumOver(EventValue(d), MinutesEvents(d, p))]
        ELSE [p \in any |->
                80 * Cardinality({d.events[e].match_id :
                                    e \in {x \in PlayerJoined(d) :
                                             d.events[x].player_id = p}})]

Per80Columns(d) == TotalsColumns(d) \cap Per80List(d)

\* per80[col] = totals[col] / mins ... : the quotient takes the index of
\* mins, and assigning a column whose index repeats a label raises
\* ValueError (cannot reindex on an axis with duplicate labels).
Per80Raises(d) ==
  /\ Per80Columns(d) # {}
  /\ \E p, q \in DOMAIN MinutesRows(d) :
        p # q /\ PlayerName(d, p) = PlayerName(d, q)

ShowsPer80(d) == ShowsTotals(d) /\ Per80List(d) # {} /\ ~Per80Raises(d)

ZeroRate == [num |-> 0, den |-> 1]

\* (totals[col] / mins.replace(0, NA)) * 80.0, then NA -> 0: a name with no
\* row in mins, or with 0 minutes, has rate 0.
Per80Cell(d, n, c) ==
  LET rows == {p \in DOMAIN MinutesRows(d) : PlayerName(d, p) = n}
  IN  IF rows = {} THEN ZeroRate
      ELSE LET mins == MinutesRows(d)[CHOOSE p \in rows : TRUE]
           IN  IF mins = 0 THEN ZeroRate
               ELSE [num |-> TotalsCell(d, n, c) * 80, den |-> mins]

SameRate(a, b) == a.num * b.den = b.num * a.den

\* weights = dict(zip(label, weight)) over the active metrics, in rowid
\* order: of two active metrics with one label the later row wins;
\* weights.get(col, 0.0)
WeightOf(d, c) ==
  LET ms == {m \in ActiveMetrics(d) : MetricLabel(d, m) = c}
  IN  IF ms = {} THEN 0 ELSE d.metrics[SetMax(ms)].weight

\* the leaderboard follows the Per-80 block in the same run
ShowsLeaderboard(d) ==
  ShowsTotals(d) /\ ~(Per80List(d) # {} /\ Per80Raises(d))

\* score_df["Score"] = totals.mul(w_series, axis=1).sum(axis=1)
ScoreCell(d, n) ==
  SumOver([c \in TotalsColumns(d) |-> TotalsCell(d, n, c) * WeightOf(d, c)],
          TotalsColumns(d))

---------------------------------------------------------------------------
(* streamlit_app.py: Dropbox sync.  The sidebar is drawn before the login  *)
(* check, so the two buttons need no session.                              *)

\* "Upload DB": the database file is written to the cloud path
UploadDb(s) ==
  /\ s \in AllSessions
  /\ cloud' = [present |-> TRUE, file |-> disk]
  /\ Say("Uploaded")
  /\ UNCHANGED <<db, disk, session, pc, toasts>>

\* "Download DB": the cloud file replaces the database file, the cached
\* connection is dropped and the rerun opens the new file (get_conn, and
\* init_db when the session is logged in); session_state is kept
DownloadDb(s) ==
  /\ s \in AllSessions
  /\ IF cloud.present
       THEN /\ Commit(IF LoggedIn(s) THEN InitDb(GetConn(cloud.file))
                      ELSE GetConn(cloud.file))
            /\ Say("Downloaded")
       ELSE /\ UNCHANGED <<db, disk>>
            /\ Say("Download failed")
  /\ UNCHANGED <<cloud, session, pc, toasts>>

---------------------------------------------------------------------------
(* Initial states *)

NoFile == [present |-> FALSE, file |-> NoTables]

\* The database file of a first start.
FreshDb == GetConn(NoTables)

\* The database file a deployment left on the persistent mount: written by
\* Login(admin), CreateUser(fan, viewer), CreateUser(coach, editor),
\* AddPlayer(a), CreateUseMatch(x, d1) and one LogEvent.
UsedDb ==
  [InitDb(FreshDb) EXCEPT
     !.users = [u \in {AdminUser, "fan", "coach"} |->
                  CASE u = AdminUser -> FreshDb.users[AdminUser]
                    [] u = "fan" -> [pass_hash |-> HashPw("pw"),
                                     role |-> "viewer", active |-> 1]
                    [] u = "coach" -> [pass_hash |-> HashPw("pw"),
                                       role |-> "editor", active |-> 1]],
     !.players = <<[name |-> <<"a">>, active |-> 1]>>,
     !.matches = <<[opponent |-> <<"x">>, date |-> "d1"]>>,
     !.events = <<[match_id |-> 1, player_id |-> 1, metric_id |-> 1,
                   value |-> 1, ts |-> 0]>>]

\* The process after construction (get_conn has run, nobody is logged in)
\* over a database file.
Started(file) ==
  /\ db = file
  /\ disk = file
  /\ cloud = NoFile
  /\ session = [s \in AllSessions |-> NoSession]
  /\ pc = [s \in AllSessions |-> "idle"]
  /\ msg = ""
  /\ clock = 1
  /\ toasts = 0

Init == Started(FreshDb) \/ Started(UsedDb)

---------------------------------------------------------------------------
(* Spec: every handler, run one at a time, MaxClock runs deep *)

\* one script run
Tick == clock <= MaxClock /\ clock' = clock + 1

Usernames == {AdminUser, "fan", "coach"}
Passwords == {AdminPass, "pw"}
NewUsers == {"fan", "new", ""}
NewPasswords == {"pw", ""}
RawNames == {<<"a">>, <<"b", " ">>, <<" ">>}
RawKeys == {<<" ", "tries">>, <<"Tries">>, <<"minutes">>, <<>>}
RawLabels == {<<"Minutes">>, <<"Tries", " ">>, <<" ">>}
EditLabels == {<<"Tries", " ">>, <<" ">>}
EditWeights == {2}
MappedKeys == {"KeyW", "Digit1"}
Opponents == {<<"x">>, <<" ">>}
Dates == {"d1", "d2"}
PlayerIds == 1..(MaxPlayers + 1)
MetricIds == 1..(Len(DEFAULT_METRICS) + 1)

DoLogin == \E s \in AllSessions, u \in Usernames, p \in Passwords :
              Tick /\ Login(s, u, p)
DoLogout == \E s \in AllSessions : Tick /\ Logout(s)
DoCreateUser == \E s \in AllSessions, u \in NewUsers, p \in NewPasswords,
                   r \in UserRoles : Tick /\ CreateUser(s, u, p, r)
DoRender == \E s \in AllSessions : Tick /\ Render(s)
DoAddPlayer == \E s \in AllSessions, n \in RawNames : Tick /\ AddPlayer(s, n)
DoSavePlayer == \E s \in AllSessions, i \in PlayerIds, n \in RawNames,
                   a \in BOOLEAN : Tick /\ SavePlayer(s, i, n, a)
DoDeletePlayer == \E s \in AllSessions, i \in PlayerIds :
                     Tick /\ DeletePlayer(s, i)
DoCreateMetric == \E s \in AllSessions, k \in RawKeys, l \in RawLabels :
                     Tick /\ CreateMetric(s, k, l, "Other", TRUE, 0)
DoSaveMetric == \E s \in AllSessions, m \in MetricIds, l \in EditLabels,
                   p \in BOOLEAN, a \in BOOLEAN, w \in EditWeights :
                   Tick /\ SaveMetric(s, m, l, "Other", p, a, w)
DoSaveMapping == \E s \in AllSessions, k \in MappedKeys, m \in MetricIds :
                    Tick /\ SaveMapping(s, k, m)
DoUploadDb == \E s \in AllSessions : Tick /\ UploadDb(s)
DoDownloadDb == \E s \in AllSessions : Tick /\ DownloadDb(s)
DoLoadWasd == \E s \in AllSessions : Tick /\ LoadWasd(s)
DoClearHotkeys == \E s \in AllSessions : Tick /\ ClearHotkeys(s)
DoCreateUseMatch == \E s \in AllSessions, o \in Opponents, dt \in Dates :
                       Tick /\ CreateUseMatch(s, o, dt)
DoLogEvent == \E s \in AllSessions, i \in PlayerIds, m \in MetricIds :
                 Tick /\ LogEvent(s, i, m)

Next ==
  \/ DoLogin \/ DoLogout \/ DoCreateUser \/ DoRender
  \/ DoAddPlayer \/ DoSavePlayer \/ DoDeletePlayer
  \/ DoCreateMetric \/ DoSaveMetric
  \/ DoSaveMapping \/ DoLoadWasd \/ DoClearHotkeys
  \/ DoUploadDb \/ DoDownloadDb
  \/ DoCreateUseMatch \/ DoLogEvent

Spec == Init /\ [][Next]_vars

---------------------------------------------------------------------------
(* Claims checked under Spec *)

Privileged(role) == role \in {"admin", "editor"}

\* The tables C5 names (videos and moments are written by page_video only).
DataTables(d) == <<d.players, d.metrics, d.matches, d.events, d.hotkeys>>

\* C5 (as claimed): while no session holds the admin or editor role, no
\* step inserts, updates or deletes a row of players, metrics, matches,
\* events or hotkeys.
C5_ViewerCannotWrite ==
  [][(\A s \in AllSessions : /\ ~Privileged(session[s].role)
                             /\ ~Privileged(session'[s].role))
       => DataTables(db') = DataTables(db)]_vars

\* C6 (as claimed): every events row refers to a players row, a metrics row
\* and a matches row that exist.
C6_NoOrphanEvents ==
  \A e \in DOMAIN db.events :
     /\ db.events[e].player_id \in DOMAIN db.players
     /\ db.events[e].metric_id \in DOMAIN db.metrics
     /\ db.events[e].match_id \in DOMAIN db.matches

UniqueKeys(d) ==
  \A m, n \in DOMAIN d.metrics :
     m # n => d.metrics[m].name # d.metrics[n].name

\* C8: "Create Metric" with a key that, trimmed, is the key of a row fails
\* and leaves the metrics table as it was - with the duplicate-key error
\* whenever the label passes validation - and no two rows share a key.
C8_DuplicateKeyRejected ==
  /\ [] UniqueKeys(db)
  /\ [][\A s \in AllSessions, k \in RawKeys, l \in RawLabels :
          (/\ CreateMetric(s, k, l, "Other", TRUE, 0)
           /\ \E m \in DOMAIN db.metrics : db.metrics[m].name = Strip(k))
          => /\ db'.metrics = db.metrics
             /\ msg' # "Metric added."
             /\ (Strip(l) # <<>> => msg' = "Key must be unique.")]_vars

\* C8 witness: a create with an existing key (" tries" trims to the seeded
\* key) was refused.
C8_Witness ==
  /\ msg = "Key must be unique."
  /\ Cardinality(DOMAIN db.metrics) = Len(DEFAULT_METRICS)

\* C9: no step changes the key (or the type) of a metrics row: Save Metric
\* Changes rewrites label, group, per80, active and weight only.
C9_KeyImmutable ==
  [][\A m \in DOMAIN db.metrics :
        m \in DOMAIN db'.metrics
          => /\ db'.metrics[m].name = db.metrics[m].name
             /\ db'.metrics[m].type = db.metrics[m].type]_vars

\* C9 witness: a seeded metric was saved with another label and still has
\* its seeded key.
C9_Witness ==
  /\ msg = "Saved."
  /\ \E m \in DOMAIN db.metrics :
        /\ m <= Len(DEFAULT_METRICS)
        /\ db.metrics[m].label # DEFAULT_METRICS[m].label
        /\ db.metrics[m].name = DEFAULT_METRICS[m].name

\* C10: no step changes match_id, player_id, metric_id, value or ts of an
\* events row that is still there after the step.
C10_EventsImmutable ==
  [][\A e \in DOMAIN db.events :
        e \in DOMAIN db'.events => db'.events[e] = db.events[e]]_vars

\* C10 witness: an event was logged on top of an earlier one, and the
\* earlier row is as it was written.
C10_Witness ==
  /\ msg = "logged"
  /\ Cardinality(DOMAIN db.events) >= 2
  /\ db.events[1] = UsedDb.events[1]

---------------------------------------------------------------------------
(* SpecReports: an admin fills the catalog and the ledger; page_reports is *)
(* evaluated in every state.  The clock stands still: no report reads ts.  *)

\* The state after Login(1, admin) on a first start.
InitReports ==
  /\ db = InitDb(FreshDb)
  /\ disk = InitDb(FreshDb)
  /\ cloud = NoFile
  /\ session = [s \in AllSessions |->
                  IF s = 1 THEN [NoSession EXCEPT !.username = AdminUser, !.role = "admin",
                                       !.match_id = 0]
                  ELSE NoSession]
  /\ pc = [s \in AllSessions |-> "idle"]
  /\ msg = ""
  /\ clock = 2
  /\ toasts = 0

ReportNames == {<<"a">>, <<"b">>}
ReportLabels == {<<"Minutes">>, <<"Tries">>}

RepAddPlayer ==
  \E n \in ReportNames :
     /\ Cardinality(DOMAIN db.players) < MaxPlayers
     /\ AddPlayer(1, n)
     /\ UNCHANGED clock

\* the optional 'minutes' metric
RepCreateMetric ==
  \E l \in ReportLabels :
     CreateMetric(1, MinutesKey, l, "Other", TRUE, 0) /\ UNCHANGED clock

\* the Active box of the second seeded metric is toggled; the other fields
\* of the form keep the values it shows
RepSaveMetric ==
  \E a \in BOOLEAN :
     /\ SaveMetric(1, 2, db.metrics[2].label, db.metrics[2].group_name,
                   db.metrics[2].per80 = 1, a, db.metrics[2].weight)
     /\ UNCHANGED clock

RepCreateUseMatch ==
  \E dt \in Dates : CreateUseMatch(1, <<"x">>, dt) /\ UNCHANGED clock

RepLogEvent ==
  \E i \in PlayerIds, m \in MetricIds :
     /\ Cardinality(DOMAIN db.events) < MaxEvents
     /\ LogEvent(1, i, m)
     /\ UNCHANGED clock

NextReports ==
  \/ RepAddPlayer \/ RepCreateMetric \/ RepSaveMetric
  \/ RepCreateUseMatch \/ RepLogEvent

SpecReports == InitReports /\ [][NextReports]_vars

---------------------------------------------------------------------------
(* Claims checked under SpecReports *)

\* the sum of value over the events of player p on metric m
PairTotal(d, p, m) == SumOver(EventValue(d), EventsOf(d, p, m))

PlayersWithEvents(d) == {d.events[e].player_id : e \in Joined(d)}
MetricsWithEvents(d) == {d.events[e].metric_id : e \in Joined(d)}

\* Totals shows, for every (player, metric) pair that has an event, the
\* sum of value over the events of that pair.
TotalsMatchLedger(d) ==
  \A p \in DOMAIN d.players, m \in DOMAIN d.metrics :
     EventsOf(d, p, m) # {}
       => /\ ShowsTotals(d)
          /\ TotalsCell(d, PlayerName(d, p), MetricLabel(d, m))
               = PairTotal(d, p, m)

\* C1: every successful logEvent adds exactly one row to events, and in
\* every state Totals gives each (player, metric) pair that has an event
\* the sum of value over that pair's events.
C1_LedgerAndTotals ==
  /\ [][\A s \in AllSessions, i \in PlayerIds, m \in MetricIds :
          LogEvent(s, i, m)
            => Cardinality(DOMAIN db'.events)
                 = Cardinality(DOMAIN db.events) + 1]_vars
  /\ [] TotalsMatchLedger(db)

\* C2: the leaderboard score of every player with events is
\* the sum over the active metrics of total * weight.
C2_ScoreIsWeightedSum ==
  \A p \in PlayersWithEvents(db) :
     /\ ShowsLeaderboard(db)
     /\ ScoreCell(db, PlayerName(db, p))
          = SumOver([m \in DOMAIN db.metrics |->
                       IF db.metrics[m].active = 1
                         THEN PairTotal(db, p, m) * db.metrics[m].weight
                         ELSE 0],
                    DOMAIN db.metrics)

UniqueName(d, p) ==
  \A q \in DOMAIN d.players : q # p => PlayerName(d, q) # PlayerName(d, p)

UniqueLabel(d, m) ==
  \A n \in DOMAIN d.metrics : n # m => MetricLabel(d, n) # MetricLabel(d, m)

\* the (player, metric) pairs a Per-80 rate is claimed for: the player has
\* events, the metric is active, flagged per80 and has events, and neither
\* shares its display text with another row
Per80Pairs(d) ==
  {pm \in PlayersWithEvents(d) \X MetricsWithEvents(d) :
     /\ d.metrics[pm[2]].per80 = 1
     /\ d.metrics[pm[2]].active = 1
     /\ UniqueName(d, pm[1])
     /\ UniqueLabel(d, pm[2])}

MinutesLogged(d, p) == SumOver(EventValue(d), MinutesEvents(d, p))

DistinctMatches(d, p) ==
  Cardinality({d.events[e].match_id :
                 e \in {x \in DOMAIN d.events : d.events[x].player_id = p}})

\* total / minutes * 80, and 0 for no minutes
RateFor(total, minutes) ==
  IF minutes = 0 THEN ZeroRate ELSE [num |-> total * 80, den |-> minutes]

\* C3: for every player and active per80 metric whose display texts are
\* their own, the rate shown is total / minutesPlayed * 80, minutesPlayed
\* chosen player by player - the player's own 'minutes' events if there are
\* any, else distinct matches * 80.
C3_PerPlayerFallback ==
  ShowsPer80(db) =>
    \A pm \in Per80Pairs(db) :
       SameRate(Per80Cell(db, PlayerName(db, pm[1]), MetricLabel(db, pm[2])),
                RateFor(PairTotal(db, pm[1], pm[2]),
                        IF MinutesEvents(db, pm[1]) # {}
                          THEN MinutesLogged(db, pm[1])
                          ELSE 80 * DistinctMatches(db, pm[1])))

---------------------------------------------------------------------------
(* SpecConc: two sessions on the one cached connection.  Each script run   *)
(* is a thread; a run is taken statement by statement: init_db, the        *)
(* handler's execute, and the exit of its `with conn:` block.  db is what  *)
(* the connection sees (its open transaction included), disk is what has   *)
(* been committed.                                                         *)

\* Two users at work on the persisted file: the editor has chosen match 1
\* in the Live Logger, the admin is on the Metrics tab.
InitConc ==
  /\ db = UsedDb
  /\ disk = UsedDb
  /\ cloud = NoFile
  /\ session = [s \in AllSessions |->
                  IF s = 1 THEN [NoSession EXCEPT !.username = "coach", !.role = "editor",
                                       !.match_id = 1]
                  ELSE [NoSession EXCEPT !.username = AdminUser, !.role = "admin",
                                       !.match_id = 1]]
  /\ pc = [s \in AllSessions |-> "idle"]
  /\ msg = ""
  /\ clock = 2
  /\ toasts = 0

ConcFrame == UNCHANGED <<cloud, session, clock>>

\* A click starts a script run: main calls init_db, whose executescript
\* commits the transaction open on the connection, whoever opened it.
RunStart(s) ==
  /\ pc[s] = "idle"
  /\ LoggedIn(s)
  /\ Commit(InitDb(db))
  /\ pc' = [pc EXCEPT ![s] = "running"]
  /\ UNCHANGED <<msg, toasts>>
  /\ ConcFrame

\* page_logger: conn.execute(INSERT INTO events ...) inside `with conn:`
ExecuteInsertEvent(s, current_player, metric) ==
  /\ pc[s] = "running"
  /\ session[s].match_id # 0
  /\ current_player \in DOMAIN db.players
  /\ metric \in ActiveMetrics(db)
  /\ Cardinality(DOMAIN db.events)
       < Cardinality(DOMAIN UsedDb.events) + MaxConcEvents
  /\ toasts < MaxConcEvents
  /\ db' = [db EXCEPT !.events =
              InsertEvent(db.events, session[s].match_id, current_player,
                          metric, clock)]
  /\ pc' = [pc EXCEPT ![s] = "event_commit"]
  /\ UNCHANGED <<disk, msg, toasts>>
  /\ ConcFrame

\* the `with conn:` block exits normally: conn.commit(), then st.toast
CommitEvent(s) ==
  /\ pc[s] = "event_commit"
  /\ disk' = db
  /\ Say("logged")
  /\ toasts' = toasts + 1
  /\ pc' = [pc EXCEPT ![s] = "idle"]
  /\ UNCHANGED db
  /\ ConcFrame

\* page_metrics: conn.execute(INSERT INTO metrics ...) inside `with conn:`;
\* a UNIQUE violation fails the statement and leaves the transaction open
ExecuteInsertMetric(s, key, label) ==
  /\ pc[s] = "running"
  /\ session[s].role = "admin"
  /\ Strip(key) # <<>> /\ Strip(label) # <<>>
  /\ IF UniqueViolation(db.metrics, Strip(key))
       THEN /\ pc' = [pc EXCEPT ![s] = "metric_rollback"]
            /\ UNCHANGED db
       ELSE /\ pc' = [pc EXCEPT ![s] = "metric_commit"]
            /\ db' = [db EXCEPT !.metrics =
                        InsertMetric(db.metrics, key, label, "Other", TRUE, 0)]
  /\ UNCHANGED <<disk, msg, toasts>>
  /\ ConcFrame

CommitMetric(s) ==
  /\ pc[s] = "metric_commit"
  /\ disk' = db
  /\ Say("Metric added.")
  /\ pc' = [pc EXCEPT ![s] = "idle"]
  /\ UNCHANGED <<db, toasts>>
  /\ ConcFrame

\* the `with conn:` block exits on IntegrityError: conn.rollback() undoes
\* everything the connection has not committed
RollbackMetric(s) ==
  /\ pc[s] = "metric_rollback"
  /\ db' = disk
  /\ Say("Key must be unique.")
  /\ pc' = [pc EXCEPT ![s] = "idle"]
  /\ UNCHANGED <<disk, toasts>>
  /\ ConcFrame

\* a run that ends without a write (another tab, no button of these two)
RunEnd(s) ==
  /\ pc[s] = "running"
  /\ pc' = [pc EXCEPT ![s] = "idle"]
  /\ UNCHANGED <<db, disk, msg, toasts>>
  /\ ConcFrame

ConcKeys == {<<"tries">>, <<"minutes">>}

DoRunStart == \E s \in AllSessions : RunStart(s)
DoExecuteInsertEvent ==
  \E s \in AllSessions, i \in PlayerIds, m \in MetricIds :
     ExecuteInsertEvent(s, i, m)
DoCommitEvent == \E s \in AllSessions : CommitEvent(s)
DoExecuteInsertMetric ==
  \E s \in AllSessions, k \in ConcKeys :
     ExecuteInsertMetric(s, k, <<"Minutes">>)
DoCommitMetric == \E s \in AllSessions : CommitMetric(s)
DoRollbackMetric == \E s \in AllSessions : RollbackMetric(s)
DoRunEnd == \E s \in AllSessions : RunEnd(s)

NextConc ==
  \/ DoRunStart \/ DoExecuteInsertEvent \/ DoCommitEvent
  \/ DoExecuteInsertMetric \/ DoCommitMetric \/ DoRollbackMetric
  \/ DoRunEnd

SpecConc == InitConc /\ [][NextConc]_vars

---------------------------------------------------------------------------
(* Claims checked under SpecConc *)

\* C4: every logEvent reported as logged has its own committed events row -
\* the committed ledger holds at least one new row, with its own id, for
\* each toast shown.
C4_LoggedIsCommitted ==
  Cardinality(DOMAIN disk.events \ DOMAIN UsedDb.events) >= toasts

---------------------------------------------------------------------------
(* SpecSync: an admin logs events and moves the database file to and from  *)
(* the cloud.                                                              *)

SyncUploadDb == UploadDb(1) /\ UNCHANGED clock
SyncDownloadDb == DownloadDb(1) /\ UNCHANGED clock
SyncAddPlayer ==
  /\ Cardinality(DOMAIN db.players) < MaxPlayers
  /\ AddPlayer(1, <<"a">>)
  /\ UNCHANGED clock
SyncCreateUseMatch == CreateUseMatch(1, <<"x">>, "d1") /\ UNCHANGED clock
\* the first metric button
SyncLogEvent ==
  \E i \in PlayerIds :
     /\ toasts < MaxEvents
     /\ LogEvent(1, i, 1)
     /\ UNCHANGED clock

NextSync ==
  \/ SyncUploadDb \/ SyncDownloadDb \/ SyncAddPlayer
  \/ SyncCreateUseMatch \/ SyncLogEvent

SpecSync == InitReports /\ [][NextSync]_vars

---------------------------------------------------------------------------
(* Claims checked under SpecSync *)

\* C7: a logEvent whose match, player or metric is missing from the store
\* inserts no row and is not reported as logged.  (The player and the
\* metric are picked from the rows of the current run; the match is the
\* one remembered by the session.)
C7_MissingReferenceRejected ==
  [][\A s \in AllSessions, i \in PlayerIds, m \in MetricIds :
       (LogEvent(s, i, m) /\ session[s].match_id \notin DOMAIN db.matches)
         => db'.events = db.events /\ msg' # "logged"]_vars

---------------------------------------------------------------------------
(* Catalog claims checked under Spec *)

\* an event whose player or metric row has been removed
Removed(d, e) ==
  \/ d.events[e].player_id \notin DOMAIN d.players
  \/ d.events[e].metric_id \notin DOMAIN d.metrics

\* C11: removing a player row deletes no event, and an event whose player
\* or metric row has been removed is outside every aggregation from then
\* on: it is joined by no query of page_reports, in this state and after
\* every later operation that keeps the event.
C11_RemovedStayExcluded ==
  /\ [][\A s \in AllSessions, i \in PlayerIds :
          DeletePlayer(s, i) => db'.events = db.events]_vars
  /\ [] (\A e \in DOMAIN db.events :
            Removed(db, e) => e \notin PlayerJoined(db) /\ e \notin Joined(db))
  /\ [][\A e \in DOMAIN db.events :
          (Removed(db, e) /\ e \in DOMAIN db'.events
             /\ db'.events[e] = db.events[e])
            => Removed(db', e)]_vars

---------------------------------------------------------------------------
(* SpecTagging: an admin switches players and metrics off and on and tags  *)
(* events in the Live Logger.                                              *)

\* the Active box of a player is toggled; the name stays as the form shows
TagSavePlayer ==
  \E i \in PlayerIds, a \in BOOLEAN :
     /\ i \in DOMAIN db.players
     /\ SavePlayer(1, i, db.players[i].name, a)
     /\ UNCHANGED clock

TagAddPlayer ==
  /\ Cardinality(DOMAIN db.players) < MaxPlayers
  /\ AddPlayer(1, <<"a">>)
  /\ UNCHANGED clock

NextTagging ==
  \/ TagAddPlayer \/ TagSavePlayer \/ RepSaveMetric
  \/ RepCreateUseMatch \/ RepLogEvent

SpecTagging == InitReports /\ [][NextTagging]_vars

\* C12: a Live Logger press logs only for a player and a metric that are
\* active, and switching a player or a metric off or on leaves every
\* events row as it was.
C12_InactiveNotTaggable ==
  /\ [][\A s \in AllSessions, i \in PlayerIds, m \in MetricIds :
          LogEvent(s, i, m)
            => /\ i \in DOMAIN db.players /\ db.players[i].active = 1
               /\ m \in DOMAIN db.metrics /\ db.metrics[m].active = 1]_vars
  /\ [][(\E p \in DOMAIN db.players :
            p \in DOMAIN db'.players
              /\ db'.players[p].active # db.players[p].active)
          => db'.events = db.events]_vars
  /\ [][(\E m \in DOMAIN db.metrics :
            m \in DOMAIN db'.metrics
              /\ db'.metrics[m].active # db.metrics[m].active)
          => db'.events = db.events]_vars

---------------------------------------------------------------------------
(* SpecHotkeys: an admin on the Hotkeys and Metrics tabs.                  *)

HotkeyLabels == {<<"Tries">>, <<"Tackles Missed">>}

HkSaveMapping ==
  \E k \in MappedKeys, m \in MetricIds :
     SaveMapping(1, k, m) /\ UNCHANGED clock

HkLoadWasd == LoadWasd(1) /\ UNCHANGED clock

HkClearHotkeys == ClearHotkeys(1) /\ UNCHANGED clock

\* Save Metric Changes: Active is toggled, and the second seeded metric is
\* relabelled; the other fields keep the values the form shows
HkSaveMetric ==
  \E m \in DOMAIN db.metrics, a \in BOOLEAN :
     \E l \in (IF m = 2 THEN HotkeyLabels ELSE {db.metrics[m].label}) :
        /\ SaveMetric(1, m, l, db.metrics[m].group_name,
                      db.metrics[m].per80 = 1, a, db.metrics[m].weight)
        /\ UNCHANGED clock

NextHotkeys == HkSaveMapping \/ HkLoadWasd \/ HkClearHotkeys \/ HkSaveMetric

SpecHotkeys == InitReports /\ [][NextHotkeys]_vars

---------------------------------------------------------------------------
(* Claims checked under SpecHotkeys *)

RowsOf(hk, k) == {r \in hk : r.key = k}
BoundKeys(hk) == {r.key : r \in hk}
PresetKeys == {WasdPreset[i][1] : i \in DOMAIN WasdPreset}
Resolves(d, label) == \E m \in DOMAIN d.metrics : d.metrics[m].label = label

\* C13: the hotkeys table never holds two rows of one symbol; Save Mapping
\* on a bound symbol replaces its metric, keeps the number of rows and the
\* rows of every other symbol; a preset load leaves one row for every
\* symbol that was bound, keeps the rows of the symbols outside the preset,
\* and keeps the number of rows when every symbol it binds was bound.
C13_OneMetricPerSymbol ==
  /\ [] (\A k \in BoundKeys(db.hotkeys) :
            Cardinality(RowsOf(db.hotkeys, k)) = 1)
  /\ [][\A s \in AllSessions, k \in ALL_KEYS, m \in MetricIds :
          (SaveMapping(s, k, m) /\ k \in BoundKeys(db.hotkeys))
            => /\ RowsOf(db'.hotkeys, k) = {[key |-> k, metric_id |-> m]}
               /\ Cardinality(db'.hotkeys) = Cardinality(db.hotkeys)
               /\ \A o \in ALL_KEYS \ {k} :
                     RowsOf(db'.hotkeys, o) = RowsOf(db.hotkeys, o)]_vars
  /\ [][\A s \in AllSessions :
          LoadWasd(s)
            => /\ \A k \in BoundKeys(db.hotkeys) :
                     Cardinality(RowsOf(db'.hotkeys, k)) = 1
               /\ \A o \in ALL_KEYS \ PresetKeys :
                     RowsOf(db'.hotkeys, o) = RowsOf(db.hotkeys, o)
               /\ (\A i \in DOMAIN WasdPreset :
                      Resolves(db, WasdPreset[i][2])
                        => WasdPreset[i][1] \in BoundKeys(db.hotkeys))
                    => Cardinality(db'.hotkeys) = Cardinality(db.hotkeys)]_vars

\* C13 witness: KeyR is bound, so the preset was loaded, which bound KeyW
\* to metric 1; Save Mapping has since rebound KeyW to metric 2.
C13_Witness ==
  /\ msg = "Saved."
  /\ RowsOf(db.hotkeys, "KeyW") = {[key |-> "KeyW", metric_id |-> 2]}
  /\ RowsOf(db.hotkeys, "KeyR") # {}
  /\ Cardinality(db.hotkeys) = 2

\* C14: a preset load binds every preset symbol whose label resolves to a
\* metric to a metric of that label, leaves the rows of every preset symbol
\* whose label resolves to none and of every symbol outside the preset as
\* they were, and ends with its success message.
C14_PresetSkipsUnresolved ==
  [][\A s \in AllSessions :
       LoadWasd(s)
         => /\ \A i \in DOMAIN WasdPreset :
                  IF Resolves(db, WasdPreset[i][2])
                    THEN /\ Cardinality(RowsOf(db'.hotkeys, WasdPreset[i][1])) = 1
                         /\ \A r \in RowsOf(db'.hotkeys, WasdPreset[i][1]) :
                               /\ r.metric_id \in DOMAIN db.metrics
                               /\ db.metrics[r.metric_id].label
                                    = WasdPreset[i][2]
                    ELSE RowsOf(db'.hotkeys, WasdPreset[i][1])
                           = RowsOf(db.hotkeys, WasdPreset[i][1])
            /\ \A o \in ALL_KEYS \ PresetKeys :
                  RowsOf(db'.hotkeys, o) = RowsOf(db.hotkeys, o)
            /\ msg' = "WASD preset loaded."]_vars

\* C14 witness: the last load skipped KeyS ("Tackles Missed" resolves to no
\* metric now) and left the binding an earlier load gave it, bound KeyR and
\* left Digit1 alone.
C14_Witness ==
  /\ msg = "WASD preset loaded."
  /\ ~Resolves(db, <<"Tackles Missed">>)
  /\ RowsOf(db.hotkeys, "KeyS") = {[key |-> "KeyS", metric_id |-> 2]}
  /\ RowsOf(db.hotkeys, "KeyR") = {[key |-> "KeyR", metric_id |-> 2]}
  /\ RowsOf(db.hotkeys, "Digit1") # {}

---------------------------------------------------------------------------
(* Further claims checked under SpecReports *)

\* C15: whenever there are events and a per80 metric, page_reports raises
\* no error and shows the Per-80 table, and every rate of a player whose
\* minutes are zero or who has no row in the minutes table is 0.
C15_NoMinutesRateZero ==
  (TotalGroups(db) # {} /\ Per80List(db) # {})
    => /\ ShowsPer80(db)
       /\ \A p \in PlayersWithEvents(db) :
             (p \notin DOMAIN MinutesRows(db) \/ MinutesRows(db)[p] = 0)
               => \A c \in Per80Columns(db) :
                     Per80Cell(db, PlayerName(db, p), c).num = 0

---------------------------------------------------------------------------
(* Further claims checked under Spec *)

\* what page_reports shows for a database: the three tables, each absent
\* when the page does not get to show it
ReportView(d) ==
  [totals |-> IF ShowsTotals(d)
                THEN {[nc \in TotalsIndex(d) \X TotalsColumns(d) |->
                         TotalsCell(d, nc[1], nc[2])]}
                ELSE {},
   per80 |-> IF ShowsPer80(d)
               THEN {[nc \in TotalsIndex(d) \X Per80Columns(d) |->
                        Per80Cell(d, nc[1], nc[2])]}
               ELSE {},
   score |-> IF ShowsLeaderboard(d)
               THEN {[n \in TotalsIndex(d) |-> ScoreCell(d, n)]}
               ELSE {}]

\* a script run that renders the app with no button of the app pressed:
\* a plain rerun, or the first run after a login that succeeded
RendersApp(s) ==
  \/ Render(s)
  \/ /\ \E u \in Usernames, p \in Passwords : Login(s, u, p)
     /\ session'[s] # NoSession

\* C16: a run that renders page_reports (init_db included) leaves players,
\* metrics, matches and events unchanged, and shows the same Totals, Per-80
\* and Leaderboard as the run before it.
C16_RenderWritesNothing ==
  [][\A s \in AllSessions :
       RendersApp(s)
         => /\ db'.players = db.players /\ db'.metrics = db.metrics
            /\ db'.matches = db.matches /\ db'.events = db.events
            /\ ReportView(db') = ReportView(db)]_vars

\* C16 (amended): such a run leaves players, matches and events unchanged;
\* it leaves metrics unchanged, and shows the same Totals, Per-80 and
\* Leaderboard, unless the metrics table is empty, in which case init_db
\* fills it with the default metrics.
C16_RenderSeedsOnlyEmptyCatalog ==
  [][\A s \in AllSessions :
       RendersApp(s)
         => /\ db'.players = db.players
            /\ db'.matches = db.matches /\ db'.events = db.events
            /\ IF DOMAIN db.metrics # {}
                 THEN db'.metrics = db.metrics
                        /\ ReportView(db') = ReportView(db)
                 ELSE DOMAIN db'.metrics = 1..Len(DEFAULT_METRICS)]_vars

\* C16 witness: a session is past the login screen and the last run
\* rendered reports over a ledger with events.
C16_Witness ==
  /\ \E s \in AllSessions : LoggedIn(s)
  /\ msg = ""
  /\ ShowsTotals(db)
  /\ ShowsLeaderboard(db)

----------------------------------------------------------------------------
(* Required fields of the catalogue forms *)

\* C17: a required text field that is empty after trimming aborts the
\* operation without a write: Add Player and Save Changes on a player with
\* a blank name, Create Metric with a blank key or label and Save Metric
\* Changes with a blank label leave players and metrics as they were, so
\* no players row has an empty name and no metrics row an empty key or
\* label.
C17_RequiredFieldsNotEmpty ==
  /\ [] (/\ \A p \in DOMAIN db.players : db.players[p].name # <<>>
         /\ \A m \in DOMAIN db.metrics :
               db.metrics[m].name # <<>> /\ db.metrics[m].label # <<>>)
  /\ [][\A s \in AllSessions :
          /\ \A n \in RawNames :
               (Strip(n) = <<>> /\ AddPlayer(s, n))
                 => db'.players = InitDb(db).players
          /\ \A n \in RawNames, i \in PlayerIds, a \in BOOLEAN :
               (Strip(n) = <<>> /\ SavePlayer(s, i, n, a))
                 => db'.players = InitDb(db).players
          /\ \A k \in RawKeys, l \in RawLabels :
               ((Strip(k) = <<>> \/ Strip(l) = <<>>)
                  /\ CreateMetric(s, k, l, "Other", TRUE, 0))
                 => db'.metrics = InitDb(db).metrics
          /\ \A l \in EditLabels, m \in MetricIds, p \in BOOLEAN,
                a \in BOOLEAN, w \in EditWeights :
               (Strip(l) = <<>> /\ SaveMetric(s, m, l, "Other", p, a, w))
                 => db'.metrics = InitDb(db).metrics]_vars

----------------------------------------------------------------------------
(* components_user_admin.py, and SpecUsers: the two user forms *)

AddUserRoles == {"admin", "analyst", "viewer"}

\* user_admin, tab "Add User", "Create User" pressed:
\* INSERT OR REPLACE INTO users ...; conn.commit()
AddUser(s, nu, np, role) ==
  /\ session[s].role = "admin"
  /\ role \in AddUserRoles
  /\ Commit([db EXCEPT !.users =
               [u \in DOMAIN db.users \cup {nu} |->
                  IF u = nu
                    THEN [pass_hash |-> HashPw(np), role |-> role,
                          active |-> 1]
                    ELSE db.users[u]]])
  /\ Say("User created")
  /\ UNCHANGED <<session, toasts>>
  /\ Sequential

UsrLogin == \E s \in AllSessions, u \in Usernames, p \in Passwords :
               Login(s, u, p) /\ UNCHANGED clock
UsrLogout == \E s \in AllSessions : Logout(s) /\ UNCHANGED clock
UsrCreateUser == \E s \in AllSessions, u \in NewUsers, p \in NewPasswords,
                    r \in UserRoles : CreateUser(s, u, p, r) /\ UNCHANGED clock
UsrAddUser == \E s \in AllSessions, u \in NewUsers, p \in NewPasswords,
                 r \in AddUserRoles : AddUser(s, u, p, r) /\ UNCHANGED clock

NextUsers == UsrLogin \/ UsrLogout \/ UsrCreateUser \/ UsrAddUser

SpecUsers == Init /\ [][NextUsers]_vars

\* C18: creating a user whose username already exists fails, with the error
\* shown, and leaves the existing users row (hash, role, active) as it was,
\* on both creation paths: "Create User" of user_admin_page and "Create
\* User" of the "Add User" tab of user_admin.
C18_DuplicateUserRejected ==
  [][\A s \in AllSessions, u \in NewUsers, p \in NewPasswords :
       (u \in DOMAIN db.users /\ u # "" /\ p # "")
         => /\ \A r \in UserRoles :
                 CreateUser(s, u, p, r)
                   => db'.users = db.users /\ msg' = "Username already exists"
            /\ \A r \in AddUserRoles :
                 AddUser(s, u, p, r)
                   => db'.users = db.users /\ msg' = "Username already exists"
    ]_vars

----------------------------------------------------------------------------
(* Identity and display text in page_reports *)

\* C19: totals and weights are kept per player id and metric id: whatever
\* names and labels are shared, page_reports does not fail, the cell shown
\* for a player with events under a metric with events is the total of
\* that player's own events on that metric (0 when it has none), and the
\* weight applied to an active metric's column is that metric's own weight.
C19_IdentityNotDisplayText ==
  /\ ~PivotRaises(db)
  /\ ~(Per80List(db) # {} /\ Per80Raises(db))
  /\ \A p \in PlayersWithEvents(db), m \in MetricsWithEvents(db) :
        TotalsCell(db, PlayerName(db, p), MetricLabel(db, m))
          = PairTotal(db, p, m)
  /\ \A m \in MetricsWithEvents(db) \cap ActiveMetrics(db) :
        WeightOf(db, MetricLabel(db, m)) = db.metrics[m].weight

----------------------------------------------------------------------------
(* page_video, and SpecVideo: an admin reviews the video of one match.     *)
(* In the other specifications the videos table is empty and page_video    *)
(* returns at "No videos for this match yet." before it draws the player.  *)

MaxVideos == 1
MaxMoments == 4

\* the first row of _matches_df (ORDER BY date DESC, id DESC); the matches
\* of SpecVideo have one date
VidMatch(d) == SetMax(DOMAIN d.matches)

\* SELECT ... FROM videos WHERE match_id=? ORDER BY id
VideosOf(d, mid) == {v \in DOMAIN d.videos : d.videos[v].match_id = mid}

\* the "Active video" select box shows its first option
ActiveVideo(d) ==
  LET vs == VideosOf(d, VidMatch(d))
  IN  CHOOSE v \in vs : \A w \in vs : v <= w

\* the run gets as far as the player
PlayerDrawn(d) == DOMAIN d.matches # {} /\ VideosOf(d, VidMatch(d)) # {}

\* page_video from the player on, for the value the component returns:
\* if payload: ... INSERT INTO moments(match_id, video_id, video_ts, note)
PageVideo(d, payload, note) ==
  IF PlayerDrawn(d) /\ payload.type = "bookmark"
    THEN [d EXCEPT !.moments =
            InsertRow(d.moments,
                      [match_id |-> VidMatch(d), video_id |-> ActiveVideo(d),
                       video_ts |-> payload.t, note |-> note])]
    ELSE d

\* SELECT id, video_ts, note FROM moments WHERE match_id=? AND video_id=?
BookmarksShown(d) ==
  IF PlayerDrawn(d)
    THEN {b \in DOMAIN d.moments :
            /\ d.moments[b].match_id = VidMatch(d)
            /\ d.moments[b].video_id = ActiveVideo(d)}
    ELSE {}

\* room left in the model for the rows one run can insert
MomentsRoom == NextRowId(db.moments) < MaxMoments

\* "Add URL"
VidAddUrl(s, lbl, url) ==
  /\ LoggedIn(s)
  /\ DOMAIN db.matches # {}
  /\ MomentsRoom
  /\ LET d == InitDb(db)
         added == [d EXCEPT !.videos =
                     InsertRow(d.videos,
                               [match_id |-> VidMatch(d), kind |-> "url",
                                url |-> Strip(url), label |-> Strip(lbl),
                                offset |-> 0])]
     IN  IF Strip(url) = <<>>
           \* the run goes on to the player
           THEN /\ Commit(PageVideo(d, session[s].payload,
                                    session[s].vid_note_default))
                /\ Say("Paste a URL.")
           \* st.rerun(): the next run draws the page with the new video
           ELSE /\ Commit(PageVideo(InitDb(added), session[s].payload,
                                    session[s].vid_note_default))
                /\ Say("Video added.")
  /\ UNCHANGED <<session, toasts>>
  /\ Sequential

\* "Save offset", then st.rerun().  The component is declared without a
\* key: with another start_time the frontend may be mounted anew, and then
\* returns default={} until the next press.
VidSaveOffset(s, off) ==
  /\ LoggedIn(s)
  /\ PlayerDrawn(db)
  /\ MomentsRoom
  /\ LET d == InitDb(db)
         vid == ActiveVideo(d)
         saved == [d EXCEPT !.videos[vid].offset = off]
     IN  \E p \in {session[s].payload} \cup
                  (IF off = d.videos[vid].offset THEN {} ELSE {NoPayload}) :
            /\ session' = [session EXCEPT ![s].payload = p]
            /\ Commit(PageVideo(InitDb(saved), p,
                                session[s].vid_note_default))
  /\ Say("Saved.")
  /\ UNCHANGED toasts
  /\ Sequential

\* Space pressed in the player: the component sends
\* {'type':'bookmark','t': seconds} and the script runs
VidBookmark(s, t) ==
  /\ LoggedIn(s)
  /\ PlayerDrawn(db)
  /\ MomentsRoom
  /\ LET p == [type |-> "bookmark", t |-> t]
     IN  /\ session' = [session EXCEPT ![s].payload = p]
         /\ Commit(PageVideo(InitDb(db), p, session[s].vid_note_default))
  /\ Say("Bookmark saved")
  /\ UNCHANGED toasts
  /\ Sequential

\* "Default note for next bookmark" edited: the run reaches the player
\* first, then stores the new text in st.session_state
VidEditDefaultNote(s, note) ==
  /\ LoggedIn(s)
  /\ PlayerDrawn(db)
  /\ MomentsRoom
  /\ note # session[s].vid_note_default
  /\ Commit(PageVideo(InitDb(db), session[s].payload,
                      session[s].vid_note_default))
  /\ session' = [session EXCEPT ![s].vid_note_default = note]
  /\ Say(IF session[s].payload.type = "bookmark" THEN "Bookmark saved" ELSE "")
  /\ UNCHANGED toasts
  /\ Sequential

\* "Save" of a bookmark row: the run reaches the player, then the row's
\* button: UPDATE moments SET note=? WHERE id=?
VidSaveNote(s, id, new_note) ==
  /\ LoggedIn(s)
  /\ id \in BookmarksShown(db)
  /\ MomentsRoom
  /\ LET d == PageVideo(InitDb(db), session[s].payload,
                        session[s].vid_note_default)
     IN  Commit([d EXCEPT !.moments[id].note = new_note])
  /\ Say("Saved")
  /\ UNCHANGED <<session, toasts>>
  /\ Sequential

\* "Delete" of a bookmark row: the run reaches the player, then the row's
\* button: DELETE FROM moments WHERE id=?, st.rerun(), and the next run
\* reaches the player again
VidDeleteMoment(s, id) ==
  /\ LoggedIn(s)
  /\ id \in BookmarksShown(db)
  /\ MomentsRoom
  /\ LET d == PageVideo(InitDb(db), session[s].payload,
                        session[s].vid_note_default)
         deleted == [d EXCEPT !.moments = DeleteRow(d.moments, id)]
     IN  Commit(PageVideo(InitDb(deleted), session[s].payload,
                          session[s].vid_note_default))
  /\ Say("Deleted")
  /\ UNCHANGED <<session, toasts>>
  /\ Sequential

\* The state after Login(1, admin) and "Create/Use Match" on a first start.
InitVideo ==
  /\ db = [InitDb(FreshDb) EXCEPT
             !.matches = <<[opponent |-> <<"x">>, date |-> "d1"]>>]
  /\ disk = db
  /\ cloud = NoFile
  /\ session = [s \in AllSessions |->
                  IF s = 1 THEN [NoSession EXCEPT !.username = AdminUser,
                                                  !.role = "admin",
                                                  !.match_id = 1]
                  ELSE NoSession]
  /\ pc = [s \in AllSessions |-> "idle"]
  /\ msg = ""
  /\ clock = 2
  /\ toasts = 0

VideoUrls == {<<"u">>, <<" ">>}
VideoLabels == {<<"Main Feed">>}
Offsets == {0, 5}
VideoTimes == {3, 7}
Notes == {"", "n"}

DoVidAddUrl ==
  \E s \in AllSessions, l \in VideoLabels, u \in VideoUrls :
     /\ Cardinality(DOMAIN db.videos) < MaxVideos
     /\ VidAddUrl(s, l, u)
     /\ UNCHANGED clock
DoVidSaveOffset ==
  \E s \in AllSessions, o \in Offsets : VidSaveOffset(s, o) /\ UNCHANGED clock
DoVidBookmark ==
  \E s \in AllSessions, t \in VideoTimes : VidBookmark(s, t) /\ UNCHANGED clock
DoVidEditDefaultNote ==
  \E s \in AllSessions, n \in Notes :
     VidEditDefaultNote(s, n) /\ UNCHANGED clock
DoVidSaveNote ==
  \E s \in AllSessions, i \in 1..MaxMoments, n \in Notes :
     VidSaveNote(s, i, n) /\ UNCHANGED clock
DoVidDeleteMoment ==
  \E s \in AllSessions, i \in 1..MaxMoments :
     VidDeleteMoment(s, i) /\ UNCHANGED clock

NextVideo ==
  \/ DoVidAddUrl
  \/ DoVidSaveOffset
  \/ DoVidBookmark
  \/ DoVidEditDefaultNote
  \/ DoVidSaveNote
  \/ DoVidDeleteMoment

SpecVideo == InitVideo /\ [][NextVideo]_vars

\* the moments rows that hold timestamp t
MomentsAt(d, t) == {b \in DOMAIN d.moments : d.moments[b].video_ts = t}

\* C20: a bookmark press at time t creates exactly one moments row, with
\* video_ts = t, and a run of page_video caused by anything else (a note
\* saved, a bookmark deleted, the offset saved, the default note edited),
\* in which the component returns the payload it returned before, inserts
\* no moments row.
C20_OneRowPerBookmark ==
  [][\A s \in AllSessions :
       /\ \A t \in VideoTimes :
            VidBookmark(s, t)
              => /\ Cardinality(DOMAIN db'.moments)
                      = Cardinality(DOMAIN db.moments) + 1
                 /\ Cardinality(MomentsAt(db', t))
                      = Cardinality(MomentsAt(db, t)) + 1
       /\ \A i \in 1..MaxMoments, n \in Notes :
            VidSaveNote(s, i, n) => DOMAIN db'.moments = DOMAIN db.moments
       /\ \A i \in 1..MaxMoments :
            VidDeleteMoment(s, i)
              => db'.moments = DeleteRow(db.moments, i)
       /\ \A o \in Offsets :
            (VidSaveOffset(s, o) /\ session'[s].payload = session[s].payload)
              => db'.moments = db.moments
       /\ \A n \in Notes :
            VidEditDefaultNote(s, n) => db'.moments = db.moments
    ]_vars

----------------------------------------------------------------------------
(* user_admin_page.py, "Existing Users", and SpecSessions: sessions while  *)
(* an admin edits the users table                                          *)

\* Mutant of SaveUser: the row is updated and the sessions of the edited
\* user are ended.
SaveUserEndsSessions(s, u, new_role, new_active) ==
  /\ session[s].role = "admin"
  /\ u \in DOMAIN db.users
  /\ \A v \in DOMAIN db.users : db.users[v].role \in UserRoles
  /\ Commit([db EXCEPT !.users[u].role = new_role,
                       !.users[u].active = IF new_active THEN 1 ELSE 0])
  /\ session' = [x \in AllSessions |->
                   IF session[x].username = u THEN NoSession ELSE session[x]]
  /\ Say("Updated")
  /\ UNCHANGED toasts
  /\ Sequential

\* "Save" beside a user: UPDATE users SET role=?, active=? WHERE username=?
\* The page draws a row for every user; .index(role) of a role outside the
\* list raises, so Save is pressed on a page whose rows all drew.
SaveUser(s, u, new_role, new_active) ==
  /\ session[s].role = "admin"
  /\ u \in DOMAIN db.users
  /\ \A v \in DOMAIN db.users : db.users[v].role \in UserRoles
  /\ new_role \in UserRoles
  /\ Commit([db EXCEPT !.users[u].role = new_role,
                       !.users[u].active = IF new_active THEN 1 ELSE 0])
  /\ Say("Updated")
  /\ UNCHANGED <<session, toasts>>
  /\ Sequential

SesLogin == \E s \in AllSessions, u \in Usernames, p \in Passwords :
               Login(s, u, p) /\ UNCHANGED clock
SesLogout == \E s \in AllSessions : Logout(s) /\ UNCHANGED clock
SesSaveUser == \E s \in AllSessions, u \in Usernames, r \in UserRoles,
                  a \in BOOLEAN : SaveUser(s, u, r, a) /\ UNCHANGED clock
SessionNames == {<<"a">>}

SesAddPlayer ==
  \E s \in AllSessions, n \in SessionNames :
     /\ Cardinality(DOMAIN db.players) < MaxPlayers
     /\ AddPlayer(s, n)
     /\ UNCHANGED clock

NextSessions == SesLogin \/ SesLogout \/ SesSaveUser \/ SesAddPlayer

SpecSessions == Init /\ [][NextSessions]_vars

\* the session of s no longer agrees with its users row
Stale(s) ==
  /\ LoggedIn(s)
  /\ session[s].username \in DOMAIN db.users
  /\ \/ db.users[session[s].username].active # 1
     \/ db.users[session[s].username].role # session[s].role

\* C21: a session begins only with a login of a username that has a users
\* row with active=1 and a matching password, and takes its role from that
\* row; from then on username and role of the session stay as they are
\* until its logout, whatever an admin saves in the users table.
C21_RoleFixedAtLogin ==
  [][\A s \in AllSessions :
       /\ (~LoggedIn(s) /\ LoggedIn(s)')
            => \E u \in DOMAIN db.users :
                  /\ session'[s].username = u
                  /\ db.users[u].active = 1
                  /\ session'[s].role = db.users[u].role
                  /\ \E p \in Passwords :
                        Login(s, u, p) /\ CheckPw(p, db.users[u].pass_hash)
       /\ LoggedIn(s)
            => \/ /\ session'[s].username = session[s].username
                  /\ session'[s].role = session[s].role
               \/ Logout(s)
    ]_vars

\* a player was added in a run of a session whose user has since been
\* deactivated or given another role
C21_Witness ==
  /\ msg = "Player added."
  /\ \E s \in AllSessions : LoggedIn(s)
  /\ \A s \in AllSessions : LoggedIn(s) => Stale(s)

=============================================================================
